---- MODULE Spec2Model ----
(***************************************************************************)
(* Model of the incident dashboard of src/src/App.tsx: the Store           *)
(* (incidents), the Draft (newIncident), the view controls (filter,        *)
(* search, sortOrder, expanded), the derived view (filtered, sorted) and   *)
(* the event handlers that change them.  The clock the handlers read is    *)
(* now; events counts the events of the session and outcome records what   *)
(* the last event did: "added" or "declined" for a click on Submit, "idle" *)
(* for every other event.                                                  *)
(*                                                                         *)
(* A JavaScript string is a sequence of one-character strings.  A          *)
(* JavaScript number that holds a time in milliseconds exceeds 32 bits, so *)
(* it is kept exactly in two limbs <<d, m>> that stand for                 *)
(* d * MsPerDay + m with 0 <= m < MsPerDay.                                *)
(***************************************************************************)
EXTENDS Integers, Sequences, FiniteSets, TLC

VARIABLES incidents, filter, sortOrder, expanded, newIncident, search, now, events, outcome

vars == <<incidents, filter, sortOrder, expanded, newIncident, search, now, events, outcome>>

(***************************************************************************)
(* Bounds of the exploration.                                              *)
(***************************************************************************)
\* a session is explored up to this many events (events counts them)
MaxEvents == 7
\* the clock is not advanced further than this many milliseconds
MaxTicks == 1
\* toggleAcknowledge is followed for this many consecutive calls
MaxCalls == 4

(***************************************************************************)
(* Strings.                                                                *)
(***************************************************************************)
UpperCase == <<"A","B","C","D","E","F","G","H","I","J","K","L","M","N","O","P","Q","R","S","T","U","V","W","X","Y","Z">>
LowerCase == <<"a","b","c","d","e","f","g","h","i","j","k","l","m","n","o","p","q","r","s","t","u","v","w","x","y","z">>
Digits == <<"0","1","2","3","4","5","6","7","8","9">>
WhiteSpace == {" ", "\t", "\n", "\r"}

IndexOf(seq, c) == IF \E i \in 1..Len(seq) : seq[i] = c
                   THEN CHOOSE i \in 1..Len(seq) : seq[i] = c
                   ELSE 0

\* the lower-case letter of every upper-case letter
UpperToLower == [c \in {UpperCase[i] : i \in 1..Len(UpperCase)} |-> LowerCase[IndexOf(UpperCase, c)]]

ToLowerChar(c) == IF c \in DOMAIN UpperToLower THEN UpperToLower[c] ELSE c

\* String.prototype.toLowerCase
ToLowerCase(s) == [i \in 1..Len(s) |-> ToLowerChar(s[i])]

\* String.prototype.includes
Includes(s, q) ==
  \/ q = <<>>
  \/ \E i \in 0..(Len(s) - Len(q)) : \A j \in 1..Len(q) : s[i + j] = q[j]

RECURSIVE TrimStart(_)
TrimStart(s) == IF s # <<>> /\ Head(s) \in WhiteSpace THEN TrimStart(Tail(s)) ELSE s

RECURSIVE TrimEnd(_)
TrimEnd(s) == IF s # <<>> /\ s[Len(s)] \in WhiteSpace THEN TrimEnd(SubSeq(s, 1, Len(s) - 1)) ELSE s

\* String.prototype.trim
Trim(s) == TrimEnd(TrimStart(s))

\* String.prototype.split(sep) for a one-character separator
RECURSIVE Split(_, _)
Split(s, sep) ==
  IF \E i \in 1..Len(s) : s[i] = sep
  THEN LET i == CHOOSE k \in 1..Len(s) : s[k] = sep /\ \A j \in 1..(k - 1) : s[j] # sep
       IN  <<SubSeq(s, 1, i - 1)>> \o Split(SubSeq(s, i + 1, Len(s)), sep)
  ELSE <<s>>

\* map(tag => tag.trim())
TrimAll(seq) == [i \in 1..Len(seq) |-> Trim(seq[i])]

\* Boolean(s) of a string: the empty string is falsy
Truthy(s) == s # <<>>

(***************************************************************************)
(* Dates: Date.now(), new Date(iso).getTime(), new Date().toISOString().   *)
(***************************************************************************)
MsPerDay == 86400000

\* days since 1970-01-01 of a civil date
DaysFromCivil(y0, m, d) ==
  LET y   == IF m <= 2 THEN y0 - 1 ELSE y0
      era == y \div 400
      yoe == y - era * 400
      doy == (153 * (IF m > 2 THEN m - 3 ELSE m + 9) + 2) \div 5 + d - 1
      doe == yoe * 365 + yoe \div 4 - yoe \div 100 + doy
  IN  era * 146097 + doe - 719468

\* civil date <<year, month, day>> of a count of days since 1970-01-01
CivilFromDays(z0) ==
  LET z   == z0 + 719468
      era == z \div 146097
      doe == z - era * 146097
      yoe == (doe - doe \div 1460 + doe \div 36524 - doe \div 146096) \div 365
      doy == doe - (365 * yoe + yoe \div 4 - yoe \div 100)
      mp  == (5 * doy + 2) \div 153
      d   == doy - (153 * mp + 2) \div 5 + 1
      m   == IF mp < 10 THEN mp + 3 ELSE mp - 9
      y   == yoe + era * 400 + (IF m <= 2 THEN 1 ELSE 0)
  IN  <<y, m, d>>

\* the value of every decimal digit
DigitValue == [c \in {Digits[i] : i \in 1..Len(Digits)} |-> IndexOf(Digits, c) - 1]

DigitVal(c) == DigitValue[c]

\* the number written by the two digits of s at i and i + 1
TwoDigits(s, i) == 10 * DigitVal(s[i]) + DigitVal(s[i + 1])

RECURSIVE Pad(_, _)
Pad(n, width) == IF width = 0 THEN <<>> ELSE Pad(n \div 10, width - 1) \o <<Digits[(n % 10) + 1]>>

\* new Date(iso).getTime() for "YYYY-MM-DDTHH:mm:ssZ" and "YYYY-MM-DDTHH:mm:ss.sssZ"
GetTime(iso) ==
  LET y  == 100 * TwoDigits(iso, 1) + TwoDigits(iso, 3)
      mo == TwoDigits(iso, 6)
      d  == TwoDigits(iso, 9)
      h  == TwoDigits(iso, 12)
      mi == TwoDigits(iso, 15)
      s  == TwoDigits(iso, 18)
      ms == IF iso[20] = "." THEN 10 * TwoDigits(iso, 21) + DigitVal(iso[23]) ELSE 0
  IN  <<DaysFromCivil(y, mo, d), ((h * 60 + mi) * 60 + s) * 1000 + ms>>

\* new Date(t).toISOString()
ToISOString(t) ==
  LET c  == CivilFromDays(t[1])
      ms == t[2] % 1000
      s  == (t[2] \div 1000) % 60
      mi == (t[2] \div 60000) % 60
      h  == t[2] \div 3600000
  IN  Pad(c[1], 4) \o <<"-">> \o Pad(c[2], 2) \o <<"-">> \o Pad(c[3], 2) \o <<"T">>
      \o Pad(h, 2) \o <<":">> \o Pad(mi, 2) \o <<":">> \o Pad(s, 2) \o <<".">> \o Pad(ms, 3) \o <<"Z">>

\* a small integer as a two-limb number
Num(n) == <<n \div MsPerDay, n % MsPerDay>>

\* the next millisecond
NextMs(t) == IF t[2] = MsPerDay - 1 THEN <<t[1] + 1, 0>> ELSE <<t[1], t[2] + 1>>

\* sign of a - b for two-limb numbers
SignOfDifference(a, b) ==
  IF a[1] # b[1] THEN (IF a[1] > b[1] THEN 1 ELSE -1)
  ELSE IF a[2] # b[2] THEN (IF a[2] > b[2] THEN 1 ELSE -1)
  ELSE 0

\* the clock when the page is loaded: 2025-04-20T23:59:59.999Z
ClockStart == <<DaysFromCivil(2025, 4, 20), MsPerDay - 1>>

\* milliseconds the clock has advanced since the page was loaded
Elapsed(t) == (t[1] - ClockStart[1]) * MsPerDay + (t[2] - ClockStart[2])

(***************************************************************************)
(* The Store's seed data.                                                  *)
(***************************************************************************)
initialIncidents == <<
  [id |-> Num(1),
   title |-> <<"B","i","a","s","e","d"," ","R","e","c","o","m","m","e","n","d","a","t","i","o","n"," ","A","l","g","o","r","i","t","h","m">>,
   description |-> <<"A","l","g","o","r","i","t","h","m"," ","c","o","n","s","i","s","t","e","n","t","l","y"," ","f","a","v","o","r","e","d"," ","c","e","r","t","a","i","n"," ","d","e","m","o","g","r","a","p","h","i","c","s",".",".",".">>,
   severity |-> "Medium",
   reported_at |-> <<"2","0","2","5","-","0","3","-","1","5","T","1","0",":","0","0",":","0","0","Z">>,
   acknowledged |-> FALSE,
   tags |-> << <<"B","i","a","s">>, <<"A","l","g","o","r","i","t","h","m">> >>],
  [id |-> Num(2),
   title |-> <<"L","L","M"," ","H","a","l","l","u","c","i","n","a","t","i","o","n"," ","i","n"," ","C","r","i","t","i","c","a","l"," ","I","n","f","o">>,
   description |-> <<"L","L","M"," ","p","r","o","v","i","d","e","d"," ","i","n","c","o","r","r","e","c","t"," ","s","a","f","e","t","y"," ","p","r","o","c","e","d","u","r","e"," ","i","n","f","o","r","m","a","t","i","o","n",".",".",".">>,
   severity |-> "High",
   reported_at |-> <<"2","0","2","5","-","0","4","-","0","1","T","1","4",":","3","0",":","0","0","Z">>,
   acknowledged |-> FALSE,
   tags |-> << <<"H","a","l","l","u","c","i","n","a","t","i","o","n">>, <<"L","L","M">> >>],
  [id |-> Num(3),
   title |-> <<"M","i","n","o","r"," ","D","a","t","a"," ","L","e","a","k"," ","v","i","a"," ","C","h","a","t","b","o","t">>,
   description |-> <<"C","h","a","t","b","o","t"," ","i","n","a","d","v","e","r","t","e","n","t","l","y"," ","e","x","p","o","s","e","d"," ","n","o","n","-","s","e","n","s","i","t","i","v","e"," ","u","s","e","r"," ","m","e","t","a","d","a","t","a",".",".",".">>,
   severity |-> "Low",
   reported_at |-> <<"2","0","2","5","-","0","3","-","2","0","T","0","9",":","1","5",":","0","0","Z">>,
   acknowledged |-> FALSE,
   tags |-> << <<"P","r","i","v","a","c","y">>, <<"C","h","a","t","b","o","t">> >>]
>>

\* the Draft's empty defaults
EmptyDraft == [title |-> <<>>, description |-> <<>>, severity |-> "Low", tags |-> <<>>]

\* the value of expanded when no Incident is expanded
Null == <<>>

(***************************************************************************)
(* What the user types and selects.                                        *)
(***************************************************************************)
TitleInputs == { <<" ">>, <<"T">> }
DescriptionInputs == { <<"D">> }
TagsInputs == { <<"a",","," ","b"," ",",",","," ","c">> }
DraftSeverityInputs == { "High" }
SearchInputs == { <<>>, <<"B">> }
FilterInputs == { "All", "High" }
SortOrderInputs == { "newest", "oldest" }

(***************************************************************************)
(* The derived view.                                                       *)
(***************************************************************************)
SeverityKeeps(f, i) == IF f = "All" THEN TRUE ELSE i.severity = f

\* SearchKeeps that lower-cases the Incident's text but not the search text
SearchKeeps_RawNeedle(q, i) ==
  \/ Includes(ToLowerCase(i.title), q)
  \/ Includes(ToLowerCase(i.description), q)
  \/ \E t \in 1..Len(i.tags) : Includes(ToLowerCase(i.tags[t]), q)

SearchKeeps(q, i) ==
  LET needle == ToLowerCase(q)
  IN  \/ Includes(ToLowerCase(i.title), needle)
      \/ Includes(ToLowerCase(i.description), needle)
      \/ \E t \in 1..Len(i.tags) : Includes(ToLowerCase(i.tags[t]), needle)

Filtered(store, f, q) ==
  LET BySeverity(i) == SeverityKeeps(f, i)
      BySearch(i) == SearchKeeps(q, i)
  IN  SelectSeq(SelectSeq(store, BySeverity), BySearch)

\* the Incidents of seq, each behind the instant its reported_at parses to
RECURSIVE WithInstants(_)
WithInstants(seq) ==
  IF seq = <<>> THEN <<>>
  ELSE << <<GetTime(Head(seq).reported_at), Head(seq)>> >> \o WithInstants(Tail(seq))

\* the Incidents of a sequence of <<instant, Incident>>
RECURSIVE WithoutInstants(_)
WithoutInstants(seq) ==
  IF seq = <<>> THEN <<>> ELSE <<Head(seq)[2]>> \o WithoutInstants(Tail(seq))

\* Compare that ignores sortOrder: always newest first
Compare_AlwaysNewest(order, ta, tb) == SignOfDifference(tb, ta)

\* the comparator handed to sort: the sign of its result for a and b, given the
\* instants ta and tb that a.reported_at and b.reported_at parse to
Compare(order, ta, tb) ==
  IF order = "newest" THEN SignOfDifference(tb, ta) ELSE SignOfDifference(ta, tb)

\* Insert that puts x in front of the elements it ties with
RECURSIVE Insert_BeforeTies(_, _, _)
Insert_BeforeTies(order, seq, x) ==
  IF seq = <<>> THEN <<x>>
  ELSE IF Compare(order, Head(seq)[1], x[1]) < 0
       THEN <<Head(seq)>> \o Insert_BeforeTies(order, Tail(seq), x)
       ELSE <<x>> \o seq

\* insert x behind every element that does not sort after it
RECURSIVE Insert(_, _, _)
Insert(order, seq, x) ==
  IF seq = <<>> THEN <<x>>
  ELSE IF Compare(order, Head(seq)[1], x[1]) <= 0
       THEN <<Head(seq)>> \o Insert(order, Tail(seq), x)
       ELSE <<x>> \o seq

\* a stable insertion sort of <<instant, Incident>> by the comparator
RECURSIVE SortWithInstants(_, _)
SortWithInstants(seq, order) ==
  IF seq = <<>> THEN <<>>
  ELSE Insert(order, SortWithInstants(SubSeq(seq, 1, Len(seq) - 1), order), seq[Len(seq)])

\* Array.prototype.sort with the comparator of sorted: a stable sort
Sort(seq, order) == WithoutInstants(SortWithInstants(WithInstants(seq), order))

filtered == Filtered(incidents, filter, search)

sorted == Sort(filtered, sortOrder)

(***************************************************************************)
(* The handlers.                                                           *)
(***************************************************************************)
\* IsBlank without the trim: only the empty string is blank
IsBlank_NoTrim(s) == ~Truthy(s)

\* !s.trim()
IsBlank(s) == ~Truthy(Trim(s))

\* MakeTags without filter(Boolean): empty pieces stay
MakeTags_KeepEmpty(text) == TrimAll(Split(text, ","))

MakeTags(text) == SelectSeq(TrimAll(Split(text, ",")), Truthy)

NewEntry(draft, t1, t2) ==
  [id |-> t1,
   title |-> draft.title,
   description |-> draft.description,
   severity |-> draft.severity,
   reported_at |-> ToISOString(t2),
   acknowledged |-> FALSE,
   tags |-> MakeTags(draft.tags)]

\* Prepend that caps the Store at its present length: the last Incident falls out
Prepend_Capped(entry, store) == <<entry>> \o SubSeq(store, 1, Len(store) - 1)

\* [newEntry, ...incidents]
Prepend(entry, store) == <<entry>> \o store

\* the clock readings a handler can see in a row: the same millisecond or the next
Readings(t) == {t} \cup (IF Elapsed(t) < MaxTicks THEN {NextMs(t)} ELSE {})

\* one more event of the session, with what it did
Step(o) == events < MaxEvents /\ events' = events + 1 /\ outcome' = o

HandleAddIncident ==
  IF IsBlank(newIncident.title) \/ IsBlank(newIncident.description)
  THEN /\ Step("declined")
       /\ UNCHANGED <<incidents, filter, sortOrder, expanded, newIncident, search, now>>
  ELSE /\ Step("added")
       /\ \E t2 \in Readings(now) :
            /\ incidents' = Prepend(NewEntry(newIncident, now, t2), incidents)
            /\ newIncident' = EmptyDraft
            /\ now' = t2
            /\ UNCHANGED <<filter, sortOrder, expanded, search>>

\* Flip that sets the flag instead of negating it
Flip_SetTrue(id, incident) ==
  IF incident.id = id THEN [incident EXCEPT !.acknowledged = TRUE] ELSE incident

Flip(id, incident) ==
  IF incident.id = id THEN [incident EXCEPT !.acknowledged = ~incident.acknowledged] ELSE incident

\* the updater toggleAcknowledge hands to setIncidents
ToggleMap(prev, id) == [k \in 1..Len(prev) |-> Flip(id, prev[k])]

ToggleAcknowledge(id) ==
  /\ Step("idle")
  /\ incidents' = ToggleMap(incidents, id)
  /\ UNCHANGED <<filter, sortOrder, expanded, newIncident, search, now>>

\* the "Acknowledge" button of a rendered row
ClickAcknowledge ==
  LET rows == sorted
  IN  \E k \in 1..Len(rows) : ToggleAcknowledge(rows[k].id)

NextExpanded(cur, id) == IF cur = id THEN Null ELSE id

\* the "View Details" / "Hide Details" button of a rendered row
ClickDetails ==
  LET rows == sorted
  IN  /\ Step("idle")
      /\ \E k \in 1..Len(rows) :
           /\ expanded' = NextExpanded(expanded, rows[k].id)
           /\ UNCHANGED <<incidents, filter, sortOrder, newIncident, search, now>>

SetSearch ==
  /\ Step("idle")
  /\ \E v \in SearchInputs :
       /\ v # search
       /\ search' = v
       /\ UNCHANGED <<incidents, filter, sortOrder, expanded, newIncident, now>>

SetFilter ==
  /\ Step("idle")
  /\ \E v \in FilterInputs :
       /\ v # filter
       /\ filter' = v
       /\ UNCHANGED <<incidents, sortOrder, expanded, newIncident, search, now>>

SetSortOrder ==
  /\ Step("idle")
  /\ \E v \in SortOrderInputs :
       /\ v # sortOrder
       /\ sortOrder' = v
       /\ UNCHANGED <<incidents, filter, expanded, newIncident, search, now>>

SetTitle ==
  /\ Step("idle")
  /\ \E v \in TitleInputs :
       /\ v # newIncident.title
       /\ newIncident' = [newIncident EXCEPT !.title = v]
       /\ UNCHANGED <<incidents, filter, sortOrder, expanded, search, now>>

SetDescription ==
  /\ Step("idle")
  /\ \E v \in DescriptionInputs :
       /\ v # newIncident.description
       /\ newIncident' = [newIncident EXCEPT !.description = v]
       /\ UNCHANGED <<incidents, filter, sortOrder, expanded, search, now>>

SetTags ==
  /\ Step("idle")
  /\ \E v \in TagsInputs :
       /\ v # newIncident.tags
       /\ newIncident' = [newIncident EXCEPT !.tags = v]
       /\ UNCHANGED <<incidents, filter, sortOrder, expanded, search, now>>

SetSeverity ==
  /\ Step("idle")
  /\ \E v \in DraftSeverityInputs :
       /\ v # newIncident.severity
       /\ newIncident' = [newIncident EXCEPT !.severity = v]
       /\ UNCHANGED <<incidents, filter, sortOrder, expanded, search, now>>

\* time passes between two events
Tick ==
  /\ Step("idle")
  /\ Elapsed(now) < MaxTicks
  /\ now' = NextMs(now)
  /\ UNCHANGED <<incidents, filter, sortOrder, expanded, newIncident, search>>

Init ==
  /\ incidents = initialIncidents
  /\ filter = "All"
  /\ sortOrder = "newest"
  /\ expanded = Null
  /\ newIncident = EmptyDraft
  /\ search = <<>>
  /\ now = ClockStart
  /\ events = 0
  /\ outcome = "idle"

Next ==
  \/ HandleAddIncident
  \/ ClickAcknowledge
  \/ ClickDetails
  \/ SetSearch
  \/ SetFilter
  \/ SetSortOrder
  \/ SetTitle
  \/ SetDescription
  \/ SetTags
  \/ SetSeverity
  \/ Tick

Spec == Init /\ [][Next]_vars

(***************************************************************************)
(* Vocabulary of the properties.                                           *)
(***************************************************************************)
\* s consists of white space only (it is empty after trimming)
AllWhiteSpace(s) == \A i \in 1..Len(s) : s[i] \in WhiteSpace

\* the two cases of every letter
LetterPairs == {{UpperCase[i], LowerCase[i]} : i \in 1..Len(UpperCase)}

\* two characters are the same letter in either case
SameLetter(c, d) == c = d \/ {c, d} \in LetterPairs

\* q occurs in s when case is ignored
OccursIgnoringCase(q, s) ==
  \E off \in 0..(Len(s) - Len(q)) : \A j \in 1..Len(q) : SameLetter(q[j], s[off + j])

\* the Incident passes the severity filter and the search filter
Passes(i) ==
  /\ filter = "All" \/ i.severity = filter
  /\ \/ search = <<>>
     \/ OccursIgnoringCase(search, i.title)
     \/ OccursIgnoringCase(search, i.description)
     \/ \E t \in 1..Len(i.tags) : OccursIgnoringCase(search, i.tags[t])

\* instant a is later than instant b
Later(a, b) == a[1] > b[1] \/ (a[1] = b[1] /\ a[2] > b[2])

\* the instants of reported_at of a sequence of Incidents
RECURSIVE Instants(_)
Instants(seq) ==
  IF seq = <<>> THEN <<>> ELSE <<GetTime(Head(seq).reported_at)>> \o Instants(Tail(seq))

\* the two records differ at most in acknowledged
SameButAcknowledged(x, y) == [x EXCEPT !.acknowledged = y.acknowledged] = y

\* from the Store reached by n calls of toggleAcknowledge(id) on the Store start,
\* every further call up to MaxCalls leaves at place k the flag of start XOR (calls mod 2),
\* and the second call gives start back
RECURSIVE ParityFrom(_, _, _, _, _)
ParityFrom(start, store, id, k, n) ==
  /\ store[k].acknowledged = (start[k].acknowledged # (n % 2 = 1))
  /\ (n = 2 => store = start)
  /\ (n < MaxCalls => ParityFrom(start, ToggleMap(store, id), id, k, n + 1))

\* the pieces of the tag text between commas, without surrounding white space,
\* keeping the non-empty ones in their order
ExpectedTags(text) ==
  LET cuts == {0, Len(text) + 1} \cup {i \in 1..Len(text) : text[i] = ","}
      nextCut(b) == CHOOSE c \in cuts : c > b /\ \A x \in cuts : x > b => c <= x
      ink(b) == {i \in (b + 1)..(nextCut(b) - 1) : text[i] \notin WhiteSpace}
      starts == {b \in cuts : b <= Len(text) /\ ink(b) # {}}
      least(S) == CHOOSE x \in S : \A y \in S : x <= y
      most(S) == CHOOSE x \in S : \A y \in S : y <= x
      nth(k) == CHOOSE b \in starts : Cardinality({x \in starts : x < b}) = k - 1
  IN  [k \in 1..Cardinality(starts) |-> SubSeq(text, least(ink(nth(k))), most(ink(nth(k))))]

\* an added Incident is in the Store
Added == Len(incidents) > Len(initialIncidents)

(***************************************************************************)
(* C1.  No two Incidents of the Store have the same id.                    *)
(***************************************************************************)
C1_UniqueIds ==
  \A i, j \in 1..Len(incidents) : i # j => incidents[i].id # incidents[j].id

(***************************************************************************)
(* C2.  A click on Submit while the Draft's title or description is empty  *)
(* after trimming leaves the Store and the Draft as they were.             *)
(***************************************************************************)
C2_BlankAddIsNoOp ==
  [][(HandleAddIncident /\ (AllWhiteSpace(newIncident.title) \/ AllWhiteSpace(newIncident.description)))
       => (incidents' = incidents /\ newIncident' = newIncident /\ outcome' = "declined")]_vars

C2_Witness ==
  /\ outcome = "declined"
  /\ newIncident.title # <<>> /\ AllWhiteSpace(newIncident.title)
  /\ newIncident.description # <<>>
  /\ Added

(***************************************************************************)
(* C3.  A click on Submit with a non-blank title and description puts one  *)
(* new Incident in front of the unchanged Store, unacknowledged, with the   *)
(* Draft's severity and the trimmed non-empty pieces of the tag text, and  *)
(* resets the Draft to its empty defaults.                                 *)
(***************************************************************************)
C3_AddPrepends ==
  [][(HandleAddIncident /\ ~AllWhiteSpace(newIncident.title) /\ ~AllWhiteSpace(newIncident.description))
       => /\ Len(incidents') = Len(incidents) + 1
          /\ SubSeq(incidents', 2, Len(incidents')) = incidents
          /\ incidents'[1].acknowledged = FALSE
          /\ incidents'[1].severity = newIncident.severity
          /\ incidents'[1].tags = ExpectedTags(newIncident.tags)
          /\ (newIncident.tags = <<"a",","," ","b"," ",",",","," ","c">>
                => incidents'[1].tags = << <<"a">>, <<"b">>, <<"c">> >>)
          /\ newIncident' = [title |-> <<>>, description |-> <<>>, severity |-> "Low", tags |-> <<>>]]_vars

C3_Witness ==
  /\ outcome = "added"
  /\ incidents[1].tags = << <<"a">>, <<"b">>, <<"c">> >>
  /\ incidents[1].severity = "High"
  /\ Added
  /\ newIncident = EmptyDraft

(***************************************************************************)
(* C4.  After n consecutive toggleAcknowledge(id) calls the acknowledged   *)
(* flag of the Incident with that id is its initial value XOR (n mod 2),   *)
(* and two calls restore the Store.                                        *)
(***************************************************************************)
C4_ToggleParity ==
  \A k \in 1..Len(incidents) : ParityFrom(incidents, incidents, incidents[k].id, k, 0)

C4_Witness ==
  /\ Added
  /\ \E k \in 1..Len(incidents) : incidents[k].acknowledged
  /\ \E k \in 1..Len(incidents) : ~incidents[k].acknowledged

(***************************************************************************)
(* C5.  toggleAcknowledge(id) changes the acknowledged flag of one         *)
(* Incident, the one with that id, and nothing else: every other Incident, *)
(* the Store's length and order, the Draft and the view controls stay.     *)
(***************************************************************************)
C5_ToggleChangesOne ==
  [][\A id \in {incidents[k].id : k \in 1..Len(incidents)} :
       ToggleAcknowledge(id)
         => /\ Len(incidents') = Len(incidents)
            /\ Cardinality({k \in 1..Len(incidents) : incidents'[k] # incidents[k]}) <= 1
            /\ \A k \in 1..Len(incidents) :
                 incidents'[k] # incidents[k]
                   => /\ incidents[k].id = id
                      /\ SameButAcknowledged(incidents[k], incidents'[k])
            /\ UNCHANGED <<newIncident, filter, search, sortOrder, expanded>>]_vars

(***************************************************************************)
(* C6.  The derived view holds exactly the Incidents of the Store that     *)
(* pass the severity filter and the search filter, in their Store order.   *)
(***************************************************************************)
C6_FilteredExact ==
  LET f == filtered
      kept == {k \in 1..Len(incidents) : Passes(incidents[k])}
      nth(j) == CHOOSE k \in kept : Cardinality({x \in kept : x < k}) = j - 1
  IN  /\ Len(f) = Cardinality(kept)
      /\ \A j \in 1..Len(f) : f[j] = incidents[nth(j)]

C6_Witness ==
  /\ search = <<"B">>
  /\ filter = "High"
  /\ Added
  /\ Len(filtered) = 1
  /\ filtered[1].title = <<"T">>

(***************************************************************************)
(* C7.  The rendered list is a permutation of the filtered result, ordered *)
(* by the instant of reported_at, newest first when sortOrder is "newest"  *)
(* and oldest first otherwise; Incidents of equal reported_at keep the     *)
(* order they had in the filtered result.                                  *)
(***************************************************************************)
C7_SortedStable ==
  LET f == filtered
      s == sorted
      n == Len(f)
      t == Instants(f)
      ahead(i, j) == IF sortOrder = "newest" THEN Later(t[i], t[j]) ELSE Later(t[j], t[i])
      place(j) == 1 + Cardinality({i \in 1..n : ahead(i, j) \/ (~ahead(j, i) /\ i < j)})
      places == {<<j, place(j)>> : j \in 1..n}
  IN  /\ Len(s) = n
      /\ \A p \in places : s[p[2]] = f[p[1]]
      /\ {p[2] : p \in places} = 1..n
      /\ LET u == Instants(s)
         IN  \A k \in 1..(n - 1) :
               IF sortOrder = "newest" THEN ~Later(u[k + 1], u[k]) ELSE ~Later(u[k], u[k + 1])

C7_Witness ==
  LET s == sorted
  IN  /\ sortOrder = "oldest"
      /\ Len(s) >= 4
      /\ \E a, b \in 1..Len(s) :
           /\ a < b
           /\ s[a].reported_at = s[b].reported_at
           /\ s[a].id # s[b].id

(***************************************************************************)
(* C8.  At most one Incident of the rendered list is shown expanded.       *)
(***************************************************************************)
C8_AtMostOneExpanded ==
  LET rows == sorted
  IN  Cardinality({k \in 1..Len(rows) : rows[k].id = expanded}) <= 1

(***************************************************************************)
(* C9.  Every step keeps every Incident of the Store, in the same order    *)
(* and unchanged but for acknowledged; the Store grows only by an add, and *)
(* changes only by an add or a toggleAcknowledge.                          *)
(***************************************************************************)
C9_StoreOnlyGrows ==
  [][/\ Len(incidents') >= Len(incidents)
     /\ \A k \in 1..Len(incidents) :
          SameButAcknowledged(incidents[k], incidents'[k + Len(incidents') - Len(incidents)])
     /\ (Len(incidents') # Len(incidents) => outcome' = "added")
     /\ (incidents' # incidents => (HandleAddIncident \/ ClickAcknowledge))]_vars

C9_Witness ==
  /\ Added
  /\ \E k \in 1..Len(incidents) : incidents[k].acknowledged
  /\ filter = "High"
  /\ expanded # Null

(***************************************************************************)
(* C10.  As claimed: the Incident added last, when it passes the filters,  *)
(* is the first item of the rendered list under either sort order.         *)
(***************************************************************************)
C10_NewestAddedFirst ==
  (Added /\ Passes(incidents[1])) => sorted[1] = incidents[1]

(***************************************************************************)
(* C10, amended.  The Incident added last, when it passes the filters, is  *)
(* rendered behind exactly the filtered Incidents whose reported_at the    *)
(* sort order puts strictly before its own: it is the first item under     *)
(* "newest" when no filtered Incident was reported later, and the first    *)
(* item under "oldest" only when no filtered Incident was reported earlier.*)
(***************************************************************************)
C10_NewestAddedPlacedByTime ==
  (Added /\ Passes(incidents[1]))
    => LET f == filtered
           s == sorted
           t == Instants(f)
           ahead == {j \in 1..Len(f) :
                       IF sortOrder = "newest" THEN Later(t[j], t[1]) ELSE Later(t[1], t[j])}
       IN  /\ f[1] = incidents[1]
           /\ s[1 + Cardinality(ahead)] = incidents[1]
           /\ (s[1] = incidents[1]) = (ahead = {})
           /\ (sortOrder = "newest" /\ (\A j \in 1..Len(f) : ~Later(t[j], t[1])))
                => s[1] = incidents[1]

C10_Witness ==
  /\ Added
  /\ Passes(incidents[1])
  /\ sortOrder = "oldest"
  /\ Len(filtered) >= 2
  /\ sorted[Len(filtered)] = incidents[1]
  /\ sorted[1] # incidents[1]

====
